---- MODULE Spec2Model ----
(***************************************************************************)
(* Model of the suffix-array phrase-table index of                         *)
(* suffixarray-phrasetable/suffixarray/SuffixArray.cpp: the merge operator *)
(* registered with the key-value engine, the batch-update / commit         *)
(* protocol (PutBatch, ForceCompaction), the reopen path of the            *)
(* constructor, the counting query, the index iterator, and a reader       *)
(* running concurrently with one PutBatch call.                            *)
(*                                                                         *)
(* Byte strings (keys and values) are sequences of cells.  A word id, a    *)
(* domain id, an offset and an in-sentence start each occupy one fixed-    *)
(* width cell; a count occupies eight byte cells (two's complement,        *)
(* big-endian).  The key-value engine is modelled by its contract: an      *)
(* ordered map from keys to values, an atomic write batch of Put and       *)
(* Merge operations, and a merge operator applied to the stored value.     *)
(***************************************************************************)
EXTENDS Integers, Sequences, FiniteSets, Bags, TLC

VARIABLES
    prefixLength,     \* SuffixArray::prefixLength (L), fixed at construction
    openForBulkLoad,  \* SuffixArray::openForBulkLoad, fixed at construction
    db,               \* the index store: key |-> stored value
    streams,          \* SuffixArray::streams, the in-memory Stream State
    storage,          \* the corpus storage: records appended / flushed
    gcPending,        \* the garbage collector's set of domains to purge
    compactRequested, \* whether the last call requested CompactRange
    nBatches,         \* number of PutBatch calls made so far
    lastOp,           \* the operation that produced this state
    status,           \* its outcome: "ok" or "index_error"
    committed,        \* history: entries of committed batches, with offsets
    mKey,             \* merge algebra: the key type tag under test
    mOps,             \* merge algebra: the three operands
    mOut,             \* merge algebra: results of the evaluated groupings
    it,               \* IndexIterator::it, the engine iterator of an index scan
    iterOut,          \* index scan: outcome of the last Next, records so far
    wr,               \* reader/writer run: the PutBatch call in flight
    rd                \* reader/writer run: the last CountOccurrences read

vars == <<prefixLength, openForBulkLoad, db, streams, storage, gcPending,
          compactRequested, nBatches, lastOp, status, committed, mKey, mOps, mOut,
          it, iterOut, wr, rd>>

indexVars == <<prefixLength, openForBulkLoad, db, streams, storage, gcPending,
               compactRequested, nBatches, lastOp, status, committed>>

mergeVars == <<mKey, mOps, mOut>>

iterVars == <<it, iterOut>>

concVars == <<wr, rd>>

(***************************************************************************)
(* Bounds of the model.                                                    *)
(***************************************************************************)
MaxPrefixLength == 2   \* L ranges over 1..MaxPrefixLength
MaxBatches == 2        \* PutBatch calls per behaviour
MaxDelta == 2          \* count deltas of the merge algebra: -1..MaxDelta

Domains == {1, 2}

(***************************************************************************)
(* Key codec (dbkv.h).  A key is a type tag followed by the body.          *)
(***************************************************************************)
kStreamsKeyType == 0
kStorageManifestKeyType == 1
kSourcePrefixKeyType == 2
kTargetCountKeyType == 3
kDomainDeletionKeyType == 4

\* An unused word slot of a prefix or count key.
kNullWord == 0

MakeEmptyKey(type) == <<type>>

kStreamsKey == MakeEmptyKey(kStreamsKeyType)

kStorageManifestKey == MakeEmptyKey(kStorageManifestKeyType)

\* The L word slots of a key: the words sentence[offset .. offset+length-1]
\* (offset is 0-based), the remaining slots null.
KeyWords(L, sentence, offset, length) ==
    [i \in 1..L |-> IF i <= length /\ offset + i <= Len(sentence)
                    THEN sentence[offset + i] ELSE kNullWord]

MakePrefixKey(L, domain, sentence, offset, length) ==
    <<kSourcePrefixKeyType>> \o KeyWords(L, sentence, offset, length) \o <<domain>>

MakeCountKey(L, sentence, offset, length) ==
    <<kTargetCountKeyType>> \o KeyWords(L, sentence, offset, length)

MakeDomainDeletionKey(domain) == <<kDomainDeletionKeyType, domain>>

GetKeyTypeFromKey(key) == key[1]

GetDomainFromKey(key, L) == key[L + 2]

RECURSIVE StripNull(_)
StripNull(ws) ==
    IF ws = <<>> \/ ws[Len(ws)] # kNullWord THEN ws
    ELSE StripNull(SubSeq(ws, 1, Len(ws) - 1))

GetWordsFromKey(key, L) == StripNull(SubSeq(key, 2, L + 1))

(***************************************************************************)
(* Value codec (dbkv.h): counts and posting lists.                         *)
(***************************************************************************)
kCountWidth == 8

\* Cells of one serialized posting: domain, corpus offset, start.
kPostingWidth == 3

\* Byte i (0 = least significant) of m >= 0; bytes 4..7 of a modelled
\* magnitude are zero.
ByteOf(m, i) == IF i > 3 THEN 0 ELSE (m \div (256 ^ i)) % 256

SerializeCount(count) ==
    LET m == IF count >= 0 THEN count ELSE (0 - count) - 1
    IN  [i \in 1..kCountWidth |->
            IF count >= 0 THEN ByteOf(m, kCountWidth - i)
            ELSE 255 - ByteOf(m, kCountWidth - i)]

DeserializeCount(data) ==
    IF Len(data) < kCountWidth THEN 0
    ELSE LET neg == data[1] >= 128
             b(i) == IF neg THEN 255 - data[i] ELSE data[i]
             m == ((b(5) * 256 + b(6)) * 256 + b(7)) * 256 + b(8)
         IN  IF neg THEN (0 - m) - 1 ELSE m

RECURSIVE SerializePostings(_)
SerializePostings(list) ==
    IF list = <<>> THEN <<>>
    ELSE <<list[1][1], list[1][2], list[1][3]>> \o SerializePostings(Tail(list))

\* PostingList::Deserialize: count = byte_length / record_width.
DeserializePostings(data) ==
    [i \in 1..(Len(data) \div kPostingWidth) |->
        <<data[kPostingWidth * (i - 1) + 1],
          data[kPostingWidth * (i - 1) + 2],
          data[kPostingWidth * (i - 1) + 3]>>]

RECURSIVE SerializeStreams(_)
SerializeStreams(s) ==
    IF s = <<>> THEN <<>>
    ELSE SerializeCount(s[1]) \o SerializeStreams(Tail(s))

DeserializeStreams(data) ==
    [i \in 1..(Len(data) \div kCountWidth) |->
        DeserializeCount(SubSeq(data, kCountWidth * (i - 1) + 1, kCountWidth * i))]

\* The storage manifest records the flushed extent of the corpus storage.
SerializeManifest(flushed) == SerializeCount(flushed)

DeserializeManifest(data) == DeserializeCount(data)

(***************************************************************************)
(* The key-value engine's contract: Get, and an atomic WriteBatch of Put   *)
(* and Merge operations.                                                   *)
(***************************************************************************)
\* An absent existing value (a null Slice pointer).
Null == <<-1>>

\* db->Get(ReadOptions(), key, &value): value stays empty when not found.
Get(store, key) == IF key \in DOMAIN store THEN store[key] ELSE <<>>

(***************************************************************************)
(* MergePositionOperator                                                   *)
(***************************************************************************)
\* Mutant: the incoming fragment replaces the stored list.
MergePositionListsOverwrite(existing_value, value) == value

\* Mutant: the incoming fragment is put in front of the stored list.
MergePositionListsReversed(existing_value, value) ==
    IF existing_value # Null THEN value \o existing_value ELSE value

MergePositionLists(existing_value, value) ==
    IF existing_value # Null THEN existing_value \o value ELSE value

\* Mutant: the incoming delta replaces the stored count.
MergeCountsOverwrite(existing_value, value) ==
    SerializeCount(DeserializeCount(value))

MergeCounts(existing_value, value) ==
    LET count == DeserializeCount(value)
    IN  IF existing_value # Null
        THEN SerializeCount(count + DeserializeCount(existing_value))
        ELSE SerializeCount(count)

\* Mutant: a key of any other type is merged as a posting list.
MergeAnyKey(key, existing_value, value) ==
    CASE key[1] = kTargetCountKeyType ->
            [ok |-> TRUE, new_value |-> MergeCounts(existing_value, value)]
      [] OTHER ->
            [ok |-> TRUE, new_value |-> MergePositionLists(existing_value, value)]

Merge(key, existing_value, value) ==
    CASE key[1] = kSourcePrefixKeyType ->
            [ok |-> TRUE, new_value |-> MergePositionLists(existing_value, value)]
      [] key[1] = kTargetCountKeyType ->
            [ok |-> TRUE, new_value |-> MergeCounts(existing_value, value)]
      [] OTHER -> [ok |-> FALSE, new_value |-> Null]

\* The value the engine stores for one operation of a write batch.
ApplyOp(store, o) ==
    IF o.op = "Put" THEN o.value
    ELSE Merge(o.key, IF o.key \in DOMAIN store THEN store[o.key] ELSE Null,
               o.value).new_value

\* Mutant: the write applies only part of the batch (the posting merges of
\* domain 2 are left out).
DbWritePartial(store, writeBatch, writeOk) ==
    IF ~writeOk THEN store
    ELSE LET applied == {o \in writeBatch :
                            ~(o.key[1] = kSourcePrefixKeyType /\ o.key[Len(o.key)] = 2)}
             keys == {o.key : o \in applied}
         IN  [k \in (DOMAIN store) \cup keys |->
                IF k \in keys
                THEN ApplyOp(store, CHOOSE o \in applied : o.key = k)
                ELSE store[k]]

\* db->Write(WriteOptions(), &writeBatch): all operations or none.
DbWrite(store, writeBatch, writeOk) ==
    IF ~writeOk THEN store
    ELSE LET keys == {o.key : o \in writeBatch}
         IN  [k \in (DOMAIN store) \cup keys |->
                IF k \in keys
                THEN ApplyOp(store, CHOOSE o \in writeBatch : o.key = k)
                ELSE store[k]]

(***************************************************************************)
(* Corpus storage (CorporaStorage): an append-only record store.  Append   *)
(* returns the offset of the new record; Flush makes every appended record *)
(* durable; the manifest is the flushed extent.                            *)
(***************************************************************************)
StorageAppendOffset(st, i) == st.size + (i - 1)

StorageAfterAppends(st, n) == [st EXCEPT !.size = @ + n]

\* Mutant: the storage is not flushed.
StorageFlushNothing(st) == st

StorageFlush(st) == [st EXCEPT !.flushed = st.size]

GetManifest(st) == st.flushed

\* CorporaStorage(storageFolder, manifest): reopened at the manifest's extent.
StorageOpen(manifest) == [size |-> manifest, flushed |-> manifest]

(***************************************************************************)
(* SuffixArray - Indexing                                                  *)
(***************************************************************************)
\* outBatch[dkey].Append(domain, location, start)
MapAppend(outBatch, dkey, posting) ==
    IF dkey \in DOMAIN outBatch
    THEN [outBatch EXCEPT ![dkey] = Append(@, posting)]
    ELSE outBatch @@ (dkey :> <<posting>>)

\* Mutant: outBatch[dkey] = 1
MapSetOne(outBatch, dkey) ==
    IF dkey \in DOMAIN outBatch
    THEN [outBatch EXCEPT ![dkey] = 1]
    ELSE outBatch @@ (dkey :> 1)

\* outBatch[dkey]++
MapIncrement(outBatch, dkey) ==
    IF dkey \in DOMAIN outBatch
    THEN [outBatch EXCEPT ![dkey] = @ + 1]
    ELSE outBatch @@ (dkey :> 1)

\* The two nested loops of AddPrefixesToBatch, from (start, length) on.
RECURSIVE AddPrefixesLoop(_, _, _, _, _, _, _)
AddPrefixesLoop(L, domain, sentence, location, start, length, outBatch) ==
    IF ~(start < Len(sentence)) THEN outBatch
    ELSE IF ~(length <= L) \/ start + length > Len(sentence)
    THEN AddPrefixesLoop(L, domain, sentence, location, start + 1, 1, outBatch)
    ELSE AddPrefixesLoop(L, domain, sentence, location, start, length + 1,
            MapAppend(outBatch, MakePrefixKey(L, domain, sentence, start, length),
                      <<domain, location, start>>))

\* Mutant: the outer loop starts at 1.
AddPrefixesToBatchFromOne(L, domain, sentence, location, outBatch) ==
    AddPrefixesLoop(L, domain, sentence, location, 1, 1, outBatch)

AddPrefixesToBatch(L, domain, sentence, location, outBatch) ==
    AddPrefixesLoop(L, domain, sentence, location, 0, 1, outBatch)

\* The two nested loops of AddTargetCountsToBatch, from (start, length) on.
RECURSIVE AddTargetCountsLoop(_, _, _, _, _)
AddTargetCountsLoop(L, sentence, start, length, outBatch) ==
    IF ~(start < Len(sentence)) THEN outBatch
    ELSE IF ~(length <= L) \/ start + length > Len(sentence)
    THEN AddTargetCountsLoop(L, sentence, start + 1, 1, outBatch)
    ELSE AddTargetCountsLoop(L, sentence, start, length + 1,
            MapIncrement(outBatch, MakeCountKey(L, sentence, start, length)))

\* Mutant loops: the inner loop does not stop at the end of the sentence.
RECURSIVE AddTargetCountsLoopNoBreak(_, _, _, _, _)
AddTargetCountsLoopNoBreak(L, sentence, start, length, outBatch) ==
    IF ~(start < Len(sentence)) THEN outBatch
    ELSE IF ~(length <= L)
    THEN AddTargetCountsLoopNoBreak(L, sentence, start + 1, 1, outBatch)
    ELSE AddTargetCountsLoopNoBreak(L, sentence, start, length + 1,
            MapIncrement(outBatch, MakeCountKey(L, sentence, start, length)))

\* Mutant: phrases are counted past the end of the sentence.
AddTargetCountsToBatchNoBreak(L, sentence, outBatch) ==
    AddTargetCountsLoopNoBreak(L, sentence, 0, 1, outBatch)

AddTargetCountsToBatch(L, sentence, outBatch) ==
    AddTargetCountsLoop(L, sentence, 0, 1, outBatch)

\* An empty unordered_map.
EmptyMap == [k \in {} |-> <<>>]

\* PutBatch, the loop over batch.data from entry i on: the source prefixes.
RECURSIVE BatchSourcePrefixes(_, _, _, _, _)
BatchSourcePrefixes(L, st, data, i, sourcePrefixes) ==
    IF i > Len(data) THEN sourcePrefixes
    ELSE BatchSourcePrefixes(L, st, data, i + 1,
            AddPrefixesToBatch(L, data[i].domain, data[i].source,
                               StorageAppendOffset(st, i), sourcePrefixes))

\* PutBatch, the loop over batch.data from entry i on: the target counts.
RECURSIVE BatchTargetCounts(_, _, _, _)
BatchTargetCounts(L, data, i, targetCounts) ==
    IF i > Len(data) THEN targetCounts
    ELSE BatchTargetCounts(L, data, i + 1,
            AddTargetCountsToBatch(L, data[i].target, targetCounts))

\* The Stream State PutBatch serializes under the streams key.
PutBatchStreamsValue(curStreams, batch) == SerializeStreams(curStreams)

\* The write batch PutBatch builds; st is the storage after the appends.
PutBatchWriteBatch(L, bulk, curStreams, st0, batch) ==
    LET sourcePrefixes == BatchSourcePrefixes(L, st0, batch.data, 1, EmptyMap)
        targetCounts == BatchTargetCounts(L, batch.data, 1, EmptyMap)
        st1 == StorageFlush(StorageAfterAppends(st0, Len(batch.data)))
    IN  {[op |-> "Merge", key |-> k, value |-> SerializePostings(sourcePrefixes[k])]
            : k \in DOMAIN sourcePrefixes}
        \cup {[op |-> "Merge", key |-> k, value |-> SerializeCount(targetCounts[k])]
            : k \in DOMAIN targetCounts}
        \cup {[op |-> "Put", key |-> MakeDomainDeletionKey(d), value |-> <<>>]
            : d \in batch.deletions}
        \cup {[op |-> "Put", key |-> kStreamsKey,
               value |-> PutBatchStreamsValue(curStreams, batch)]}
        \cup (IF ~bulk
              THEN {[op |-> "Put", key |-> kStorageManifestKey,
                     value |-> SerializeManifest(GetManifest(st1))]}
              ELSE {})

\* Mutant: the corpus storage is not touched by PutBatch.
PutBatchStorageUntouched(bulk, st0, batch) == st0

\* The corpus storage after PutBatch: the appends, and the flush unless
\* bulk-loading.  Both precede the commit.
PutBatchStorage(bulk, st0, batch) ==
    LET appended == StorageAfterAppends(st0, Len(batch.data))
    IN  IF ~bulk THEN StorageFlush(appended) ELSE appended

\* Mutant: the Stream State is replaced before the commit is attempted.
PutBatchStreamsEarly(curStreams, batch, writeOk) == batch.streams

\* streams = batch.GetStreams(), reached only when the commit did not throw.
PutBatchStreams(curStreams, batch, writeOk) ==
    IF writeOk THEN batch.streams ELSE curStreams

\* Mutant: the deletion set is not handed to the collector.
PutBatchNotMarked(pending, batch, writeOk) == pending

\* Mutant: the deletion set is handed to the collector before the commit.
PutBatchMarkedEarly(pending, batch, writeOk) == pending \cup batch.deletions

\* garbageCollector->MarkForDeletion(batch.deletions), after the commit.
PutBatchMarked(pending, batch, writeOk) ==
    IF writeOk THEN pending \cup batch.deletions ELSE pending

(***************************************************************************)
(* SuffixArray - Query                                                     *)
(***************************************************************************)
Max(a, b) == IF a >= b THEN a ELSE b

\* PrefixCursor::NewGlobalCursor + Seek(phrase): the source-prefix keys
\* whose word slots are the phrase's, whatever their domain.
CursorKeys(L, store, phrase) ==
    LET prefix == <<kSourcePrefixKeyType>> \o KeyWords(L, phrase, 0, Len(phrase))
    IN  {k \in DOMAIN store : Len(k) > L + 1 /\ SubSeq(k, 1, L + 1) = prefix}

\* PrefixCursor::CountValue: the posting-list length of the current entry.
CountValue(value) == Len(value) \div kPostingWidth

\* for (cursor->Seek(phrase); cursor->HasNext(); cursor->Next()) count += ...
RECURSIVE CursorSum(_, _)
CursorSum(store, keys) ==
    IF keys = {} THEN 0
    ELSE LET k == CHOOSE x \in keys : TRUE
         IN  CountValue(store[k]) + CursorSum(store, keys \ {k})

\* Mutant: the result is not floored at 1.
CountOccurrencesNoFloor(L, store, isSource, phrase) ==
    IF Len(phrase) > L THEN 1
    ELSE IF isSource THEN CursorSum(store, CursorKeys(L, store, phrase))
    ELSE DeserializeCount(Get(store, MakeCountKey(L, phrase, 0, Len(phrase))))

\* Mutant: no early return for phrases longer than the prefix length.
CountOccurrencesNoLengthCheck(L, store, isSource, phrase) ==
    LET count ==
            IF isSource THEN CursorSum(store, CursorKeys(L, store, phrase))
            ELSE DeserializeCount(
                    Get(store, MakeCountKey(L, phrase, 0, Len(phrase))))
    IN  Max(count, 1)

CountOccurrences(L, store, isSource, phrase) ==
    IF Len(phrase) > L THEN 1
    ELSE LET count ==
                IF isSource THEN CursorSum(store, CursorKeys(L, store, phrase))
                ELSE DeserializeCount(
                        Get(store, MakeCountKey(L, phrase, 0, Len(phrase))))
         IN  Max(count, 1)

(***************************************************************************)
(* Garbage collector (GarbageCollector): MarkForDeletion queues domains;   *)
(* a sweep purges the postings of one queued domain and its marker.        *)
(***************************************************************************)
\* Deletion markers found in the index when the collector is constructed.
GcOpen(store) == {d \in Domains : MakeDomainDeletionKey(d) \in DOMAIN store}

GcPurgedKeys(L, store, d) ==
    {k \in DOMAIN store :
        \/ GetKeyTypeFromKey(k) = kSourcePrefixKeyType /\ GetDomainFromKey(k, L) = d
        \/ k = MakeDomainDeletionKey(d)}

GcSweepStore(L, store, d) ==
    [k \in (DOMAIN store) \ GcPurgedKeys(L, store, d) |-> store[k]]

(***************************************************************************)
(* Inputs: the sentence pairs and update batches fed to the index.         *)
(***************************************************************************)
Words == {1, 2}

SampleEntries ==
    { [domain |-> 1, source |-> <<1, 2, 1>>, target |-> <<2, 2>>],
      [domain |-> 2, source |-> <<1, 2>>,    target |-> <<2>>],
      [domain |-> 1, source |-> <<>>,        target |-> <<1, 2>>] }

\* The entries of a batch that deletes nothing: one sample entry, or one
\* entry of each domain.
PairData ==
    {<<e, f>> : e \in {x \in SampleEntries : Len(x.source) = 3},
                f \in {x \in SampleEntries : x.domain = 2}}

BatchData == {<<e>> : e \in SampleEntries} \cup PairData

\* The batches the n-th PutBatch call may receive: entries only, the
\* deletion of one domain only, or entries of both domains together with
\* the deletion of domain 1.  The resulting Stream State is the watermark
\* of the ingestion channel.
Batches(n) ==
    {[data |-> d, deletions |-> {}, streams |-> <<n>>] : d \in BatchData}
    \cup {[data |-> <<>>, deletions |-> {x}, streams |-> <<n>>] : x \in Domains}
    \cup {[data |-> d, deletions |-> {1}, streams |-> <<n>>] : d \in PairData}

(***************************************************************************)
(* History: what was committed, for stating the claims.                    *)
(***************************************************************************)
RECURSIVE CommittedEntries(_, _, _)
CommittedEntries(st0, data, i) ==
    IF i > Len(data) THEN <<>>
    ELSE <<[domain |-> data[i].domain, source |-> data[i].source,
            target |-> data[i].target, offset |-> StorageAppendOffset(st0, i),
            swept |-> FALSE]>> \o CommittedEntries(st0, data, i + 1)

MarkSwept(hist, d) ==
    [i \in 1..Len(hist) |->
        IF hist[i].domain = d THEN [hist[i] EXCEPT !.swept = TRUE] ELSE hist[i]]

(***************************************************************************)
(* The state machine.                                                      *)
(***************************************************************************)
EmptyStore == [k \in {} |-> <<>>]

InitIndex ==
    /\ prefixLength \in 1..MaxPrefixLength
    /\ openForBulkLoad \in BOOLEAN
    /\ db = EmptyStore
    /\ streams = DeserializeStreams(Get(EmptyStore, kStreamsKey))
    /\ storage = StorageOpen(DeserializeManifest(Get(EmptyStore, kStorageManifestKey)))
    /\ gcPending = GcOpen(EmptyStore)
    /\ compactRequested = FALSE
    /\ nBatches = 0
    /\ lastOp = "Open"
    /\ status = "ok"
    /\ committed = <<>>

IdleMerge ==
    /\ mKey = kStreamsKeyType
    /\ mOps = <<>>
    /\ mOut = <<>>

\* No index scan has been started.
IdleIter ==
    /\ it = [open |-> FALSE, pos |-> 0, ok |-> TRUE]
    /\ iterOut = [ret |-> "none", decoded |-> <<>>, delivered |-> <<>>]

\* No reader/writer run is under way.
IdleConc ==
    /\ wr = [phase |-> "idle"]
    /\ rd = <<>>

Init == InitIndex /\ IdleMerge /\ IdleIter /\ IdleConc

PutBatch(batch, writeOk) ==
    /\ nBatches < MaxBatches
    /\ db' = DbWrite(db, PutBatchWriteBatch(prefixLength, openForBulkLoad,
                                            streams, storage, batch), writeOk)
    /\ storage' = PutBatchStorage(openForBulkLoad, storage, batch)
    /\ streams' = PutBatchStreams(streams, batch, writeOk)
    /\ gcPending' = PutBatchMarked(gcPending, batch, writeOk)
    /\ committed' = IF writeOk
                    THEN committed \o CommittedEntries(storage, batch.data, 1)
                    ELSE committed
    /\ nBatches' = nBatches + 1
    /\ lastOp' = "PutBatch"
    /\ status' = IF writeOk THEN "ok" ELSE "index_error"
    /\ compactRequested' = FALSE
    /\ UNCHANGED <<prefixLength, openForBulkLoad, mergeVars, iterVars, concVars>>

\* Mutant: the manifest is taken without flushing the storage first.
ForceCompactionWriteBatchUnflushed(curStreams, st0) ==
    {[op |-> "Put", key |-> kStreamsKey, value |-> SerializeStreams(curStreams)],
     [op |-> "Put", key |-> kStorageManifestKey,
      value |-> SerializeManifest(GetManifest(st0))]}

\* The write batch of the deferred durability step.
ForceCompactionWriteBatch(curStreams, st0) ==
    {[op |-> "Put", key |-> kStreamsKey, value |-> SerializeStreams(curStreams)],
     [op |-> "Put", key |-> kStorageManifestKey,
      value |-> SerializeManifest(GetManifest(StorageFlush(st0)))]}

\* Mutant: the deferred durability step is taken whatever the mode.
ForceCompactionAlwaysWrites(writeOk) ==
    /\ lastOp # "ForceCompaction"
    /\ db' = DbWrite(db, ForceCompactionWriteBatch(streams, storage), writeOk)
    /\ storage' = StorageFlush(storage)
    /\ status' = IF writeOk THEN "ok" ELSE "index_error"
    /\ compactRequested' = writeOk
    /\ lastOp' = "ForceCompaction"
    /\ UNCHANGED <<prefixLength, openForBulkLoad, streams, gcPending, nBatches,
                   committed, mergeVars, iterVars, concVars>>

ForceCompaction(writeOk) ==
    /\ lastOp # "ForceCompaction"
    /\ IF openForBulkLoad
       THEN /\ db' = DbWrite(db, ForceCompactionWriteBatch(streams, storage), writeOk)
            /\ storage' = StorageFlush(storage)
            /\ status' = IF writeOk THEN "ok" ELSE "index_error"
            /\ compactRequested' = writeOk
       ELSE /\ UNCHANGED <<db, storage>>
            /\ status' = "ok"
            /\ compactRequested' = TRUE
    /\ lastOp' = "ForceCompaction"
    /\ UNCHANGED <<prefixLength, openForBulkLoad, streams, gcPending, nBatches,
                   committed, mergeVars, iterVars, concVars>>

\* ~SuffixArray followed by SuffixArray(...) on the same model directory.
Reopen ==
    /\ lastOp # "Reopen"
    /\ streams' = DeserializeStreams(Get(db, kStreamsKey))
    /\ storage' = StorageOpen(DeserializeManifest(Get(db, kStorageManifestKey)))
    /\ gcPending' = GcOpen(db)
    /\ lastOp' = "Reopen"
    /\ status' = "ok"
    /\ compactRequested' = FALSE
    /\ UNCHANGED <<prefixLength, openForBulkLoad, db, nBatches, committed,
                   mergeVars, iterVars, concVars>>

\* One completed sweep of the collector's background loop, for domain d.
GcSweep(d) ==
    /\ d \in gcPending
    /\ db' = GcSweepStore(prefixLength, db, d)
    /\ gcPending' = gcPending \ {d}
    /\ committed' = MarkSwept(committed, d)
    /\ lastOp' = "GcSweep"
    /\ status' = "ok"
    /\ compactRequested' = FALSE
    /\ UNCHANGED <<prefixLength, openForBulkLoad, streams, storage, nBatches,
                   mergeVars, iterVars, concVars>>

Next ==
    \/ \E b \in Batches(nBatches + 1), writeOk \in BOOLEAN : PutBatch(b, writeOk)
    \/ \E writeOk \in BOOLEAN : ForceCompaction(writeOk)
    \/ Reopen
    \/ \E d \in Domains : GcSweep(d)

Spec == Init /\ [][Next]_vars

\* The collector's background loop runs on its own timer: a queued domain
\* is eventually swept.
FairSpec == Spec /\ \A d \in Domains : WF_vars(GcSweep(d))

(***************************************************************************)
(* The merge operator as an algebra: three operands of one key, merged in  *)
(* every order and both groupings, and one operand merged into an absent   *)
(* existing value.                                                         *)
(***************************************************************************)
CountDeltas == (0 - 1)..MaxDelta

Fragments ==
    { SerializePostings(<<>>),
      SerializePostings(<<<<1, 0, 0>>>>),
      SerializePostings(<<<<2, 1, 0>>, <<1, 0, 0>>>>) }

Orders == {o \in [1..3 -> 1..3] : \A i, j \in 1..3 : o[i] = o[j] => i = j}

IdleIndex ==
    /\ prefixLength = 1
    /\ openForBulkLoad = FALSE
    /\ db = EmptyStore
    /\ streams = <<>>
    /\ storage = StorageOpen(0)
    /\ gcPending = {}
    /\ compactRequested = FALSE
    /\ nBatches = 0
    /\ lastOp = "Open"
    /\ status = "ok"
    /\ committed = <<>>

InitMerge ==
    /\ IdleIndex
    /\ IdleIter
    /\ IdleConc
    /\ \/ /\ mKey = kTargetCountKeyType
          /\ mOps \in [1..3 -> {SerializeCount(c) : c \in CountDeltas}]
       \/ /\ mKey = kSourcePrefixKeyType
          /\ mOps \in [1..3 -> Fragments]
    /\ mOut = [order |-> <<>>, grouping |-> "none", value |-> Null]

\* A key of type mKey (the operator looks at the type tag only).
MergeKey == <<mKey, 1>>

\* merge(merge(a, b), c)
MergeGroupedLeft(order) ==
    /\ mOut' = [order |-> order, grouping |-> "left",
                value |-> Merge(MergeKey,
                                Merge(MergeKey, mOps[order[1]], mOps[order[2]]).new_value,
                                mOps[order[3]]).new_value]
    /\ UNCHANGED <<indexVars, mKey, mOps, iterVars, concVars>>

\* merge(a, merge(b, c))
MergeGroupedRight(order) ==
    /\ mOut' = [order |-> order, grouping |-> "right",
                value |-> Merge(MergeKey, mOps[order[1]],
                                Merge(MergeKey, mOps[order[2]], mOps[order[3]]).new_value
                               ).new_value]
    /\ UNCHANGED <<indexVars, mKey, mOps, iterVars, concVars>>

\* merge(absent, a)
MergeIntoAbsent(i) ==
    /\ mOut' = [order |-> <<i>>, grouping |-> "absent",
                value |-> Merge(MergeKey, Null, mOps[i]).new_value]
    /\ UNCHANGED <<indexVars, mKey, mOps, iterVars, concVars>>

NextMerge ==
    \/ \E o \in Orders : MergeGroupedLeft(o)
    \/ \E o \in Orders : MergeGroupedRight(o)
    \/ \E i \in 1..3 : MergeIntoAbsent(i)

SpecMerge == InitMerge /\ [][NextMerge]_vars

(***************************************************************************)
(* Index iterator (IndexIterator): a forward scan of the whole index store *)
(* in the engine's key order.  The engine iterator is a position in the    *)
(* ordered key list and a status; a seek or an advance that hits an engine *)
(* fault leaves the iterator invalid with a non-ok status.                 *)
(***************************************************************************)
\* The engine's bytewise comparator: a sorts strictly before b.
KeyLess(a, b) ==
    \E i \in 1..(Len(a) + 1) :
        /\ \A j \in 1..(i - 1) : j <= Len(b) /\ a[j] = b[j]
        /\ IF i > Len(a) THEN i <= Len(b)
           ELSE i <= Len(b) /\ a[i] < b[i]

\* The keys of a store in the engine's order.
RECURSIVE SortKeys(_)
SortKeys(keys) ==
    IF keys = {} THEN <<>>
    ELSE LET first == CHOOSE x \in keys : \A y \in keys \ {x} : KeyLess(x, y)
         IN  <<first>> \o SortKeys(keys \ {first})

\* it->Valid()
IteratorValid(store, i) ==
    i.open /\ i.ok /\ i.pos <= Cardinality(DOMAIN store)

\* The switch of IndexIterator::Next on a source-prefix or target-count
\* record: the fields written to *outEntry.
IndexEntryOf(L, key, value) ==
    IF GetKeyTypeFromKey(key) = kSourcePrefixKeyType
    THEN [is_source |-> TRUE,
          domain |-> GetDomainFromKey(key, L),
          words |-> GetWordsFromKey(key, L),
          positions |-> DeserializePostings(value),
          count |-> Len(DeserializePostings(value))]
    ELSE [is_source |-> FALSE,
          domain |-> 0,
          words |-> GetWordsFromKey(key, L),
          positions |-> <<>>,
          count |-> DeserializeCount(value)]

\* The while loop of IndexIterator::Next from iterator state i on.  The
\* advance numbered faultAt (counted from this point, 1 = the next one)
\* hits an engine fault; 0 means none does.
RECURSIVE NextLoop(_, _, _, _, _)
NextLoop(L, store, i, out, faultAt) ==
    IF ~IteratorValid(store, i)
    THEN [it |-> i, out |-> [out EXCEPT !.ret = "false"]]
    ELSE LET key == SortKeys(DOMAIN store)[i.pos]
             loop == GetKeyTypeFromKey(key)
                        \notin {kSourcePrefixKeyType, kTargetCountKeyType}
             decoded == IF loop THEN out.decoded
                        ELSE Append(out.decoded, IndexEntryOf(L, key, store[key]))
             advanced == IF faultAt = 1 THEN [i EXCEPT !.ok = FALSE]
                         ELSE [i EXCEPT !.pos = @ + 1]
         IN  IF ~advanced.ok
             THEN [it |-> advanced,
                   out |-> [ret |-> "index_error", decoded |-> decoded,
                            delivered |-> out.delivered]]
             ELSE IF ~loop
             THEN [it |-> advanced,
                   out |-> [ret |-> "true", decoded |-> decoded,
                            delivered |-> Append(out.delivered,
                                            IndexEntryOf(L, key, store[key]))]]
             ELSE NextLoop(L, store, advanced,
                           [out EXCEPT !.decoded = decoded], faultAt - 1)

\* Mutant loop: a record of another type ends the scan.
RECURSIVE NextLoopEndsAtOther(_, _, _, _, _)
NextLoopEndsAtOther(L, store, i, out, faultAt) ==
    IF ~IteratorValid(store, i)
    THEN [it |-> i, out |-> [out EXCEPT !.ret = "false"]]
    ELSE LET key == SortKeys(DOMAIN store)[i.pos]
             loop == GetKeyTypeFromKey(key)
                        \notin {kSourcePrefixKeyType, kTargetCountKeyType}
             advanced == IF faultAt = 1 THEN [i EXCEPT !.ok = FALSE]
                         ELSE [i EXCEPT !.pos = @ + 1]
         IN  IF ~advanced.ok
             THEN [it |-> advanced, out |-> [out EXCEPT !.ret = "index_error"]]
             ELSE IF ~loop
             THEN [it |-> advanced,
                   out |-> [ret |-> "true",
                            decoded |-> Append(out.decoded,
                                            IndexEntryOf(L, key, store[key])),
                            delivered |-> Append(out.delivered,
                                            IndexEntryOf(L, key, store[key]))]]
             ELSE [it |-> advanced, out |-> [out EXCEPT !.ret = "false"]]

\* Mutant: Next with the loop that stops at a record of another type.
IndexIteratorNextEndsAtOther(L, store, i, out, faultAt) ==
    NextLoopEndsAtOther(L, store, i, out, faultAt)

\* bool IndexIterator::Next(IndexEntry *outEntry)
IndexIteratorNext(L, store, i, out, faultAt) ==
    NextLoop(L, store, i, out, faultAt)

\* SuffixArray::NewIterator(): the constructor opens an engine iterator and
\* seeks to the first key; seekOk is whether the seek succeeded.
NewIterator(seekOk) ==
    /\ ~it.open
    /\ it' = [open |-> TRUE, pos |-> 1, ok |-> seekOk]
    /\ iterOut' = [ret |-> "none", decoded |-> <<>>, delivered |-> <<>>]
    /\ UNCHANGED <<indexVars, mergeVars, concVars>>

\* One call of Next on the open iterator.
IteratorNext(faultAt) ==
    /\ it.open
    /\ LET r == IndexIteratorNext(prefixLength, db, it, iterOut, faultAt)
       IN  /\ it' = r.it
           /\ iterOut' = r.out
    /\ UNCHANGED <<indexVars, mergeVars, concVars>>

\* An index is built by successful batches and then scanned.
NextIter ==
    \/ \E b \in Batches(nBatches + 1) : ~it.open /\ PutBatch(b, TRUE)
    \/ \E seekOk \in BOOLEAN : NewIterator(seekOk)
    \/ \E faultAt \in 0..Cardinality(DOMAIN db) : IteratorNext(faultAt)

SpecIter == Init /\ [][NextIter]_vars

(***************************************************************************)
(* A reader concurrent with the single writer.  One PutBatch call is in    *)
(* flight at a time and takes three steps: the appends, the construction   *)
(* of the write batch and the flush (lines 165-202), the commit (lines     *)
(* 205-207), and the updates that follow a successful commit (lines        *)
(* 210-211).  CountOccurrences calls of a reader thread run between these  *)
(* steps; each is one Get or one cursor scan of the index store, which the *)
(* engine serves from a consistent view.                                   *)
(***************************************************************************)
\* PutBatch up to the commit: lines 165-202.
PutBatchBegin(batch, writeOk) ==
    /\ wr.phase = "idle"
    /\ nBatches < MaxBatches
    /\ wr' = [phase |-> "built", batch |-> batch, writeOk |-> writeOk,
              writeBatch |-> PutBatchWriteBatch(prefixLength, openForBulkLoad,
                                                streams, storage, batch),
              before |-> committed,
              entries |-> CommittedEntries(storage, batch.data, 1)]
    /\ storage' = PutBatchStorage(openForBulkLoad, storage, batch)
    /\ nBatches' = nBatches + 1
    /\ lastOp' = "PutBatch"
    /\ rd' = <<>>
    /\ UNCHANGED <<prefixLength, openForBulkLoad, db, streams, gcPending,
                   compactRequested, status, committed, mergeVars, iterVars>>

\* The commit of the write batch, lines 205-207; a failure ends the call.
PutBatchCommit ==
    /\ wr.phase = "built"
    /\ db' = DbWrite(db, wr.writeBatch, wr.writeOk)
    /\ committed' = IF wr.writeOk THEN committed \o wr.entries ELSE committed
    /\ status' = IF wr.writeOk THEN "ok" ELSE "index_error"
    /\ wr' = IF wr.writeOk THEN [wr EXCEPT !.phase = "committed"]
             ELSE [phase |-> "idle"]
    /\ rd' = IF wr.writeOk THEN rd ELSE <<>>
    /\ UNCHANGED <<prefixLength, openForBulkLoad, streams, storage, gcPending,
                   compactRequested, nBatches, lastOp, mergeVars, iterVars>>

\* After a successful commit: lines 210-211.
PutBatchFinish ==
    /\ wr.phase = "committed"
    /\ streams' = PutBatchStreams(streams, wr.batch, TRUE)
    /\ gcPending' = PutBatchMarked(gcPending, wr.batch, TRUE)
    /\ wr' = [phase |-> "idle"]
    /\ rd' = <<>>
    /\ UNCHANGED <<prefixLength, openForBulkLoad, db, storage, compactRequested,
                   nBatches, lastOp, status, committed, mergeVars, iterVars>>

\* A CountOccurrences call of a reader while the PutBatch is in flight.
Read(isSource, phrase) ==
    /\ wr.phase # "idle"
    /\ rd' = [isSource |-> isSource, phrase |-> phrase,
              value |-> CountOccurrences(prefixLength, db, isSource, phrase),
              phase |-> wr.phase]
    /\ UNCHANGED <<indexVars, wr, mergeVars, iterVars>>

\* The phrases the reader asks for.
ReadPhrases == {<<1>>, <<2>>, <<1, 2>>}

NextConc ==
    \/ \E b \in Batches(nBatches + 1), writeOk \in BOOLEAN : PutBatchBegin(b, writeOk)
    \/ PutBatchCommit
    \/ PutBatchFinish
    \/ \E isSource \in BOOLEAN, p \in ReadPhrases : Read(isSource, p)

SpecConc == Init /\ [][NextConc]_vars

(***************************************************************************)
(* Vocabulary of the claims.                                               *)
(***************************************************************************)
\* Every phrase over Words that the claims query: lengths 0..L+1.
AllPhrases == UNION {[1..n -> Words] : n \in 0..(MaxPrefixLength + 1)}

\* Phrases over Words of length lo..hi.
Phrases(lo, hi) == {p \in AllPhrases : Len(p) >= lo /\ Len(p) <= hi}

\* Start positions (0-based) at which phrase p occurs in sentence s.
OccurrenceStarts(p, s) ==
    {i \in 0..(Len(s) - Len(p)) : SubSeq(s, i + 1, i + Len(p)) = p}

RECURSIVE TotalOccurrences(_, _, _)
TotalOccurrences(hist, side, p) ==
    IF hist = <<>> THEN 0
    ELSE Cardinality(OccurrenceStarts(p, IF side = "source" THEN hist[1].source
                                         ELSE hist[1].target))
         + TotalOccurrences(Tail(hist), side, p)

RECURSIVE SumOver(_, _)
SumOver(f, S) ==
    IF S = {} THEN 0
    ELSE LET x == CHOOSE y \in S : TRUE IN f[x] + SumOver(f, S \ {x})

Range(f) == {f[x] : x \in DOMAIN f}

BagOf(list) ==
    [x \in Range(list) |-> Cardinality({i \in DOMAIN list : list[i] = x})]

PersistedStreams(store) == DeserializeStreams(Get(store, kStreamsKey))

SourceKeysOfDomain(store, L, d) ==
    {k \in DOMAIN store :
        GetKeyTypeFromKey(k) = kSourcePrefixKeyType /\ GetDomainFromKey(k, L) = d}

Unswept(hist) == SelectSeq(hist, LAMBDA e : ~e.swept)

(***************************************************************************)
(* C1. A PutBatch whose commit fails reports an index error and leaves     *)
(* the index store exactly as it was (no posting fragment, count delta,    *)
(* deletion marker, Stream State or manifest of the batch), leaves the     *)
(* in-memory Stream State unchanged, and a reopen would load the same      *)
(* Stream State and see the same counts as before the batch.               *)
(***************************************************************************)
C1_FailedCommitLeavesIndex ==
    [][(nBatches' = nBatches + 1 /\ status' = "index_error")
        => /\ lastOp' = "PutBatch"
           /\ db' = db
           /\ streams' = streams
           /\ PersistedStreams(db') = PersistedStreams(db)
           /\ \A p \in Phrases(1, MaxPrefixLength), isSource \in BOOLEAN :
                CountOccurrences(prefixLength, db', isSource, p)
                    = CountOccurrences(prefixLength, db, isSource, p)]_vars

\* A failed PutBatch of a batch with entries, on a non-empty index.
C1_Witness ==
    /\ lastOp = "PutBatch"
    /\ status = "index_error"
    /\ committed # <<>>
    /\ storage.size > Len(committed)

(***************************************************************************)
(* C2. After every successful PutBatch the Stream State persisted under    *)
(* the streams key is the batch's resulting Stream State, i.e. equals the  *)
(* in-memory Stream State after the call.                                  *)
(***************************************************************************)
C2_PersistedStreamsAreNew ==
    (lastOp = "PutBatch" /\ status = "ok") => PersistedStreams(db) = streams

(***************************************************************************)
(* C3. For every phrase p with 1 <= |p| <= L, CountOccurrences(target, p)  *)
(* is max(1, N), N the number of (entry, start) pairs over all committed   *)
(* entries at which p occurs in the entry's target sentence.               *)
(***************************************************************************)
C3_TargetCountsAccumulate ==
    \A p \in Phrases(1, prefixLength) :
        CountOccurrences(prefixLength, db, FALSE, p)
            = Max(1, TotalOccurrences(committed, "target", p))

\* Two committed batches each added one occurrence of <<1, 2>>: count 2.
C3_Witness ==
    /\ prefixLength = 2
    /\ nBatches = 2
    /\ Len(committed) = 2
    /\ committed[1].target = <<1, 2>>
    /\ committed[2].target = <<1, 2>>
    /\ CountOccurrences(prefixLength, db, FALSE, <<1, 2>>) = 2

(***************************************************************************)
(* C4. For every phrase p with 1 <= |p| <= L, CountOccurrences(source, p)  *)
(* is max(1, S), S the sum over every domain d of the length of the        *)
(* posting list stored under SourcePrefixKey(L, d, p); before any sweep of *)
(* the garbage collector S is the number of occurrences of p in the source *)
(* sentences of all committed entries.                                     *)
(***************************************************************************)
C4_SourceCountSumsDomains ==
    \A p \in Phrases(1, prefixLength) :
        LET perDomain == [d \in Domains |->
                Len(DeserializePostings(
                    Get(db, MakePrefixKey(prefixLength, d, p, 0, Len(p)))))]
            count == CountOccurrences(prefixLength, db, TRUE, p)
        IN  /\ count = Max(1, SumOver(perDomain, Domains))
            /\ (\A i \in DOMAIN committed : ~committed[i].swept)
                => count = Max(1, TotalOccurrences(committed, "source", p))

\* <<1>> occurs twice in a domain-1 sentence and once in a domain-2 one.
C4_Witness ==
    /\ MakePrefixKey(prefixLength, 1, <<1>>, 0, 1) \in DOMAIN db
    /\ MakePrefixKey(prefixLength, 2, <<1>>, 0, 1) \in DOMAIN db
    /\ \A i \in DOMAIN committed : ~committed[i].swept
    /\ CountOccurrences(prefixLength, db, TRUE, <<1>>) >= 3

(***************************************************************************)
(* C5. Every posting (domain, offset, start) written by a committed batch  *)
(* is still in the posting list of its SourcePrefixKey, unless the garbage *)
(* collector has swept the posting's domain since; later batches, failed   *)
(* batches, compactions and reopens never drop or overwrite it.            *)
(***************************************************************************)
C5_NoPostingLost ==
    \A i \in DOMAIN committed :
        LET e == committed[i]
        IN  ~e.swept =>
            \A start \in 0..(Len(e.source) - 1), length \in 1..prefixLength :
                start + length <= Len(e.source) =>
                    <<e.domain, e.offset, start>> \in
                        Range(DeserializePostings(
                            Get(db, MakePrefixKey(prefixLength, e.domain,
                                                  e.source, start, length))))

\* Two committed batches wrote postings under the same key.
C5_Witness ==
    /\ nBatches = 2
    /\ Len(committed) = 2
    /\ committed[1].source = <<1, 2, 1>>
    /\ committed[2].source = <<1, 2, 1>>
    /\ committed[1].offset # committed[2].offset
    /\ ~committed[1].swept /\ ~committed[2].swept

(***************************************************************************)
(* C6. For both sides and every phrase of length <= L (also one with no    *)
(* postings or no stored count) CountOccurrences returns at least 1.       *)
(***************************************************************************)
C6_CountFloor ==
    \A p \in Phrases(0, prefixLength), isSource \in BOOLEAN :
        CountOccurrences(prefixLength, db, isSource, p) >= 1

\* A non-empty index in which <<2, 2>> has neither postings nor a count.
C6_Witness ==
    /\ prefixLength = 2
    /\ committed # <<>>
    /\ CursorKeys(prefixLength, db, <<2, 2>>) = {}
    /\ MakeCountKey(prefixLength, <<2, 2>>, 0, 2) \notin DOMAIN db
    /\ CountOccurrences(prefixLength, db, TRUE, <<2, 2>>) = 1
    /\ CountOccurrences(prefixLength, db, FALSE, <<2, 2>>) = 1

(***************************************************************************)
(* C7. For every phrase longer than L CountOccurrences returns exactly 1,  *)
(* on both sides, whatever the committed corpus holds.                     *)
(***************************************************************************)
C7_LongPhraseIsOne ==
    \A p \in Phrases(prefixLength + 1, MaxPrefixLength + 1), isSource \in BOOLEAN :
        CountOccurrences(prefixLength, db, isSource, p) = 1

\* L = 1 and the long phrase <<1, 2>> does occur in a committed source
\* whose one-word prefix <<1>> has two postings.
C7_Witness ==
    /\ prefixLength = 1
    /\ TotalOccurrences(Unswept(committed), "source", <<1, 2>>) >= 1
    /\ CountOccurrences(prefixLength, db, TRUE, <<1>>) >= 2
    /\ CountOccurrences(prefixLength, db, TRUE, <<1, 2>>) = 1

(***************************************************************************)
(* C8. For a TargetCountKey merge is integer addition: whatever the order  *)
(* and the grouping, merging three deltas a, b, c yields a + b + c, and    *)
(* merging a delta into an absent existing value yields the delta.         *)
(***************************************************************************)
C8_CountMergeIsAddition ==
    mKey = kTargetCountKeyType =>
        /\ mOut.grouping \in {"left", "right"} =>
                /\ DeserializeCount(mOut.value)
                    = DeserializeCount(mOps[1]) + DeserializeCount(mOps[2])
                        + DeserializeCount(mOps[3])
                /\ Len(mOut.value) = kCountWidth
        /\ mOut.grouping = "absent" => mOut.value = mOps[mOut.order[1]]

\* merge(c, merge(a, b)) of three different non-zero deltas.
C8_Witness ==
    /\ mKey = kTargetCountKeyType
    /\ mOut.grouping = "right"
    /\ mOut.order = <<3, 1, 2>>
    /\ DeserializeCount(mOps[1]) = 2
    /\ DeserializeCount(mOps[2]) = 0 - 1
    /\ DeserializeCount(mOps[3]) = 1

(***************************************************************************)
(* C9. For a SourcePrefixKey, merging three fragments in any order and     *)
(* grouping yields the same multiset of postings, the union of the three   *)
(* (length |A| + |B| + |C|); for a fixed order the result is the byte      *)
(* concatenation in that order, whatever the grouping.                     *)
(***************************************************************************)
C9_PostingMergeIsConcatenation ==
    mKey = kSourcePrefixKeyType =>
        /\ mOut.grouping \in {"left", "right"} =>
                /\ mOut.value = mOps[mOut.order[1]] \o mOps[mOut.order[2]]
                                    \o mOps[mOut.order[3]]
                /\ BagOf(DeserializePostings(mOut.value))
                    = BagOf(DeserializePostings(mOps[1]))
                        (+) BagOf(DeserializePostings(mOps[2]))
                        (+) BagOf(DeserializePostings(mOps[3]))
                /\ Len(DeserializePostings(mOut.value))
                    = Len(DeserializePostings(mOps[1]))
                        + Len(DeserializePostings(mOps[2]))
                        + Len(DeserializePostings(mOps[3]))
        /\ mOut.grouping = "absent" => mOut.value = mOps[mOut.order[1]]

\* merge(merge(C, A), B) of three fragments, two of them different.
C9_Witness ==
    /\ mKey = kSourcePrefixKeyType
    /\ mOut.grouping = "left"
    /\ mOut.order = <<3, 1, 2>>
    /\ Len(mOps[1]) = kPostingWidth
    /\ Len(mOps[2]) = 2 * kPostingWidth
    /\ Len(mOps[3]) = kPostingWidth

(***************************************************************************)
(* C10. Once the collector has swept every committed entry of domain D     *)
(* (a sweep for D completed and no later batch inserted entries of D), the *)
(* index holds no source-prefix record of domain D, so neither the         *)
(* iterator nor CountOccurrences(source, .) reports a posting of D: the    *)
(* source count of every phrase is what the unswept entries give.  Until   *)
(* the sweep the postings may still be reported.  Under fairness of the    *)
(* collector's loop, a committed deletion marker of D leads to a state in  *)
(* which the marker and every source-prefix record of D are gone.          *)
(***************************************************************************)
C10_DeletionEventuallyConsistent ==
    /\ [](\A d \in Domains :
            (\A i \in DOMAIN committed : committed[i].domain = d => committed[i].swept)
                => /\ SourceKeysOfDomain(db, prefixLength, d) = {}
                   /\ \A p \in Phrases(1, prefixLength) :
                        CountOccurrences(prefixLength, db, TRUE, p)
                            = Max(1, TotalOccurrences(Unswept(committed), "source", p)))
    /\ \A d \in Domains :
            (MakeDomainDeletionKey(d) \in DOMAIN db)
                ~> (/\ MakeDomainDeletionKey(d) \notin DOMAIN db
                    /\ SourceKeysOfDomain(db, prefixLength, d) = {})

\* Domain 1 was committed, marked and swept; domain 2's postings remain.
C10_Witness ==
    /\ lastOp = "GcSweep"
    /\ \E i \in DOMAIN committed : committed[i].domain = 1 /\ committed[i].swept
    /\ \A i \in DOMAIN committed : committed[i].domain = 1 => committed[i].swept
    /\ SourceKeysOfDomain(db, prefixLength, 1) = {}
    /\ SourceKeysOfDomain(db, prefixLength, 2) # {}

(***************************************************************************)
(* C11. Original statement: a PutBatch whose commit fails leaves the       *)
(* corpus storage as it was before the batch (nothing appended, nothing    *)
(* flushed).                                                               *)
(***************************************************************************)
C11_FailedCommitLeavesStorage ==
    [][(nBatches' = nBatches + 1 /\ status' = "index_error")
        => storage' = storage]_vars

(***************************************************************************)
(* C11. A PutBatch whose commit fails leaves the index store, and so the   *)
(* persisted Storage Manifest, as they were, while the corpus storage      *)
(* keeps every sentence pair the batch appended (it grows by the number of *)
(* entries of the batch) and, unless bulk-loading, has been flushed up to  *)
(* its new extent: the appended pairs are orphans that no posting written  *)
(* by the batch refers to.                                                 *)
(***************************************************************************)
C11_FailedCommitLeavesOrphans ==
    [][\A b \in Batches(nBatches + 1) :
        PutBatch(b, FALSE)
            => /\ status' = "index_error"
               /\ db' = db
               /\ Get(db', kStorageManifestKey) = Get(db, kStorageManifestKey)
               /\ storage'.size = storage.size + Len(b.data)
               /\ storage'.flushed = IF openForBulkLoad THEN storage.flushed
                                     ELSE storage'.size]_vars

\* A failed PutBatch on a non-bulk index whose flushed storage now extends
\* beyond the persisted manifest.
C11_Witness ==
    /\ lastOp = "PutBatch"
    /\ status = "index_error"
    /\ ~openForBulkLoad
    /\ storage.flushed = storage.size
    /\ DeserializeManifest(Get(db, kStorageManifestKey)) < storage.size

\* The source-prefix and target-count keys of a store, in key order.
RecordKeys(store) ==
    SelectSeq(SortKeys(DOMAIN store),
              LAMBDA k : GetKeyTypeFromKey(k)
                            \in {kSourcePrefixKeyType, kTargetCountKeyType})

(***************************************************************************)
(* C12. As long as the scan meets no engine fault, the entries Next has    *)
(* returned are, in key order and once each, the leading source-prefix and *)
(* target-count records of the index: a source-prefix record gives         *)
(* is_source, its domain, its words, its postings and count = number of    *)
(* postings; a target-count record gives not-source, domain 0, its words,  *)
(* no postings and count = the stored integer.  Records of other types     *)
(* (streams, manifest, deletion markers) are passed over wherever they     *)
(* lie, and Next returns false only when every such record was returned.   *)
(***************************************************************************)
C12_IteratorYieldsEveryRecord ==
    (it.open /\ it.ok) =>
        LET recs == RecordKeys(db)
            out == iterOut.delivered
        IN  /\ Len(out) <= Len(recs)
            /\ \A j \in 1..Len(out) :
                LET k == recs[j]
                    isSource == GetKeyTypeFromKey(k) = kSourcePrefixKeyType
                IN  /\ out[j].is_source = isSource
                    /\ out[j].words = GetWordsFromKey(k, prefixLength)
                    /\ out[j].domain
                        = (IF isSource THEN GetDomainFromKey(k, prefixLength) ELSE 0)
                    /\ out[j].positions
                        = (IF isSource THEN DeserializePostings(db[k]) ELSE <<>>)
                    /\ out[j].count
                        = (IF isSource THEN Len(DeserializePostings(db[k]))
                           ELSE DeserializeCount(db[k]))
            /\ \A j, k \in 1..Len(recs) : j < k => KeyLess(recs[j], recs[k])
            /\ iterOut.ret = "true" => Len(out) >= 1
            /\ iterOut.ret = "false" => Len(out) = Len(recs)

\* A completed fault-free scan of an index that holds the streams key
\* before, and a deletion marker after, its source-prefix and target-count
\* records; one posting list has two postings and one count is 2.
C12_Witness ==
    /\ it.open /\ it.ok
    /\ iterOut.ret = "false"
    /\ kStreamsKey \in DOMAIN db
    /\ \E d \in Domains : MakeDomainDeletionKey(d) \in DOMAIN db
    /\ \E j \in DOMAIN iterOut.delivered :
            iterOut.delivered[j].is_source /\ iterOut.delivered[j].count >= 2
    /\ \E j \in DOMAIN iterOut.delivered :
            ~iterOut.delivered[j].is_source /\ iterOut.delivered[j].count >= 2

\* The corpus offsets of the postings stored in the index.
PostingOffsets(store) ==
    UNION {{posting[2] : posting \in Range(DeserializePostings(store[k]))} :
            k \in {x \in DOMAIN store :
                    GetKeyTypeFromKey(x) = kSourcePrefixKeyType}}

PersistedManifest(store) == DeserializeManifest(Get(store, kStorageManifestKey))

(***************************************************************************)
(* C13. When the index is not opened for bulk load, the Storage Manifest   *)
(* is committed together with the postings: after every successful         *)
(* PutBatch the persisted manifest is the extent of the flushed corpus     *)
(* storage, and in every reachable state every posting of the index has a  *)
(* corpus offset below the persisted manifest.                             *)
(***************************************************************************)
C13_ManifestCoversPostings ==
    ~openForBulkLoad =>
        /\ \A offset \in PostingOffsets(db) : offset < PersistedManifest(db)
        /\ (lastOp = "PutBatch" /\ status = "ok") =>
                /\ kStorageManifestKey \in DOMAIN db
                /\ kStreamsKey \in DOMAIN db
                /\ PersistedManifest(db) = GetManifest(storage)
                /\ GetManifest(storage) = storage.size

\* Not bulk-loading: a second committed batch whose last entry's postings
\* lie just below the persisted manifest, after an earlier failed batch
\* left orphan pairs in the storage.
C13_Witness ==
    /\ ~openForBulkLoad
    /\ lastOp = "PutBatch"
    /\ status = "ok"
    /\ Len(committed) >= 1
    /\ storage.size > Len(committed)
    /\ PersistedManifest(db) = storage.size
    /\ (PersistedManifest(db) - 1) \in PostingOffsets(db)

(***************************************************************************)
(* C14. When the index is opened for bulk load: a PutBatch neither flushes *)
(* the corpus storage nor writes the manifest key; a successful            *)
(* ForceCompaction commits the in-memory Stream State and the manifest of  *)
(* the freshly flushed storage and requests compaction, so that afterwards *)
(* the persisted Stream State is the in-memory one and the persisted       *)
(* manifest is the full extent of the storage; a ForceCompaction whose     *)
(* write fails reports an index error, writes nothing and requests no      *)
(* compaction.                                                             *)
(***************************************************************************)
C14_BulkLoadDefersDurability ==
    [][openForBulkLoad =>
        /\ (nBatches' = nBatches + 1) =>
                /\ GetManifest(storage') = GetManifest(storage)
                /\ Get(db', kStorageManifestKey) = Get(db, kStorageManifestKey)
        /\ (lastOp' = "ForceCompaction" /\ status' = "ok") =>
                /\ streams' = streams
                /\ PersistedStreams(db') = streams'
                /\ storage'.size = storage.size
                /\ GetManifest(storage') = storage'.size
                /\ PersistedManifest(db') = storage'.size
                /\ compactRequested'
        /\ (lastOp' = "ForceCompaction" /\ status' = "index_error") =>
                /\ db' = db
                /\ ~compactRequested']_vars

\* Bulk load: two batches were appended without a flush, then a successful
\* ForceCompaction persisted the Stream State and a manifest covering both.
C14_Witness ==
    /\ openForBulkLoad
    /\ lastOp = "ForceCompaction"
    /\ status = "ok"
    /\ compactRequested
    /\ nBatches = 2
    /\ streams = <<2>>
    /\ PersistedStreams(db) = <<2>>
    /\ PersistedManifest(db) >= 2
    /\ PersistedManifest(db) = storage.size

\* The records an index scan returns, each with its key (the key order
\* fixes their sequence).
ScanRecords(L, store) ==
    {<<k, IndexEntryOf(L, k, store[k])>> :
        k \in {x \in DOMAIN store :
                GetKeyTypeFromKey(x) \in {kSourcePrefixKeyType, kTargetCountKeyType}}}

(***************************************************************************)
(* C15. When the index is not opened for bulk load, ForceCompaction writes *)
(* no key, does not flush the corpus storage and leaves the in-memory      *)
(* Stream State alone: the index store, hence every CountOccurrences       *)
(* result and the sequence of records an index scan returns, is the same   *)
(* before and after it; it reports success and requests a compaction.      *)
(***************************************************************************)
C15_ForceCompactionKeepsContent ==
    [][(~openForBulkLoad /\ lastOp' = "ForceCompaction") =>
        /\ db' = db
        /\ storage' = storage
        /\ streams' = streams
        /\ gcPending' = gcPending
        /\ \A p \in Phrases(1, prefixLength), isSource \in BOOLEAN :
                CountOccurrences(prefixLength, db', isSource, p)
                    = CountOccurrences(prefixLength, db, isSource, p)
        /\ ScanRecords(prefixLength, db') = ScanRecords(prefixLength, db)
        /\ status' = "ok"
        /\ compactRequested']_vars

\* Not bulk-loading: ForceCompaction on an index whose persisted Stream
\* State differs from the in-memory one, and the difference is still there.
C15_Witness ==
    /\ ~openForBulkLoad
    /\ lastOp = "ForceCompaction"
    /\ compactRequested
    /\ committed # <<>>
    /\ PersistedStreams(db) # streams

(***************************************************************************)
(* C16. Every operation of a committed write batch (of PutBatch or of the  *)
(* deferred step of ForceCompaction) is a Merge exactly when its key is a  *)
(* source-prefix or target-count key; for every other key (streams,        *)
(* manifest, deletion marker), and for a key with an unknown tag, the      *)
(* merge operator returns false and produces no value, the key is written  *)
(* with Put and the value stored after the commit is exactly the value     *)
(* put, whatever was stored before.                                        *)
(***************************************************************************)
C16_OtherKeysArePut ==
    [][LET PutOnly(writeBatch) ==
            \A o \in writeBatch :
                /\ (o.op = "Merge") <=>
                        (GetKeyTypeFromKey(o.key)
                            \in {kSourcePrefixKeyType, kTargetCountKeyType})
                /\ (o.op = "Put") =>
                        /\ ~Merge(o.key, Get(db, o.key), o.value).ok
                        /\ Merge(o.key, Get(db, o.key), o.value).new_value = Null
                        /\ ~Merge(<<kDomainDeletionKeyType + 1>>,
                                  Get(db, o.key), o.value).ok
                        /\ Get(db', o.key) = o.value
       IN  /\ \A b \in Batches(nBatches + 1) :
                (nBatches' = nBatches + 1 /\ status' = "ok" /\ PutBatch(b, TRUE)) =>
                    PutOnly(PutBatchWriteBatch(prefixLength, openForBulkLoad,
                                               streams, storage, b))
           /\ (openForBulkLoad /\ lastOp' = "ForceCompaction" /\ status' = "ok") =>
                    PutOnly(ForceCompactionWriteBatch(streams, storage))]_vars

\* Not bulk-loading: the second commit replaced a stored Stream State and a
\* stored manifest, and a deletion marker is stored.
C16_Witness ==
    /\ ~openForBulkLoad
    /\ lastOp = "PutBatch"
    /\ status = "ok"
    /\ Get(db, kStreamsKey) = SerializeStreams(<<1>>)
    /\ PersistedManifest(db) >= 2
    /\ Len(committed) >= 2
    /\ \E d \in Domains : MakeDomainDeletionKey(d) \in DOMAIN db

\* The number of phrases PutBatch indexes for a sentence of n words: the
\* sum over start = 0..n-1 of min(L, n - start).
ExpectedProduced(L, n) ==
    SumOver([start \in 0..(n - 1) |-> IF L < n - start THEN L ELSE n - start],
            0..(n - 1))

\* The operations of a write batch on keys of one type.
OpsOfType(writeBatch, type) ==
    {o \in writeBatch : GetKeyTypeFromKey(o.key) = type}

\* The number of postings stored in the index.
StoredPostings(store) ==
    SumOver([k \in DOMAIN store |->
                IF GetKeyTypeFromKey(k) = kSourcePrefixKeyType
                THEN Len(DeserializePostings(store[k])) ELSE 0],
            DOMAIN store)

(***************************************************************************)
(* C17. Every source-prefix and target-count key of the write batch of a   *)
(* PutBatch holds a phrase of 1..L words; every posting (domain, offset,   *)
(* start) under a source-prefix key belongs to an entry of the batch with  *)
(* that domain and offset, and the key's phrase is the slice of the        *)
(* entry's source sentence at start, lying inside the sentence; every      *)
(* target-count key's phrase is a slice of a target sentence of the batch. *)
(* The batch holds exactly sum over start of min(L, n - start) postings    *)
(* per source sentence of n words, and as many count increments per target *)
(* sentence (none for an empty sentence).  In every reachable state every  *)
(* source-prefix and target-count key of the index holds 1..L words.       *)
(***************************************************************************)
C17_PrefixLengthBound ==
    /\ [](\A k \in DOMAIN db :
            GetKeyTypeFromKey(k) \in {kSourcePrefixKeyType, kTargetCountKeyType}
                => /\ Len(GetWordsFromKey(k, prefixLength)) >= 1
                   /\ Len(GetWordsFromKey(k, prefixLength)) <= prefixLength)
    /\ [][\A b \in Batches(nBatches + 1) :
            (nBatches' = nBatches + 1 /\ status' = "ok" /\ PutBatch(b, TRUE)) =>
            LET L == prefixLength
                writeBatch == PutBatchWriteBatch(L, openForBulkLoad, streams,
                                                 storage, b)
                prefixOps == OpsOfType(writeBatch, kSourcePrefixKeyType)
                countOps == OpsOfType(writeBatch, kTargetCountKeyType)
                IsSlice(words, sentence, start) ==
                    /\ Len(words) >= 1
                    /\ Len(words) <= L
                    /\ start + Len(words) <= Len(sentence)
                    /\ SubSeq(sentence, start + 1, start + Len(words)) = words
            IN  /\ \A o \in prefixOps :
                    \A posting \in Range(DeserializePostings(o.value)) :
                        \E i \in DOMAIN b.data :
                            /\ posting[1] = b.data[i].domain
                            /\ posting[1] = GetDomainFromKey(o.key, L)
                            /\ posting[2] = StorageAppendOffset(storage, i)
                            /\ IsSlice(GetWordsFromKey(o.key, L), b.data[i].source,
                                       posting[3])
                /\ \A o \in countOps :
                    \E i \in DOMAIN b.data :
                        \E start \in 0..Len(b.data[i].target) :
                            IsSlice(GetWordsFromKey(o.key, L), b.data[i].target, start)
                /\ SumOver([o \in prefixOps |-> Len(DeserializePostings(o.value))],
                           prefixOps)
                    = SumOver([i \in DOMAIN b.data |->
                                ExpectedProduced(L, Len(b.data[i].source))],
                              DOMAIN b.data)
                /\ SumOver([o \in countOps |-> DeserializeCount(o.value)], countOps)
                    = SumOver([i \in DOMAIN b.data |->
                                ExpectedProduced(L, Len(b.data[i].target))],
                              DOMAIN b.data)
                /\ StoredPostings(db') = StoredPostings(db)
                    + SumOver([i \in DOMAIN b.data |->
                                ExpectedProduced(L, Len(b.data[i].source))],
                              DOMAIN b.data)]_vars

\* L = 2: one committed batch of a three-word and a two-word source
\* sentence left 5 + 3 postings in the index.
C17_Witness ==
    /\ prefixLength = 2
    /\ lastOp = "PutBatch"
    /\ status = "ok"
    /\ nBatches = 1
    /\ Len(committed) = 2
    /\ Len(committed[1].source) = 3
    /\ Len(committed[2].source) = 2
    /\ StoredPostings(db) = 8

(***************************************************************************)
(* C18. In every reachable state each domain queued at the garbage         *)
(* collector has its deletion marker stored in the index.  A successful    *)
(* PutBatch stores the marker of every domain of its deletion set in the   *)
(* commit and queues exactly those domains; a failed PutBatch stores no    *)
(* marker and queues nothing; and no PutBatch removes a posting: every     *)
(* posting list of the index is a leading part of the list stored under    *)
(* the same key afterwards.                                                *)
(***************************************************************************)
C18_DeletionsQueuedAfterCommit ==
    /\ [](\A d \in gcPending : MakeDomainDeletionKey(d) \in DOMAIN db)
    /\ [][\A b \in Batches(nBatches + 1), writeOk \in BOOLEAN :
            (nBatches' = nBatches + 1
                /\ status' = (IF writeOk THEN "ok" ELSE "index_error")
                /\ PutBatch(b, writeOk)) =>
            /\ writeOk =>
                    /\ \A d \in b.deletions : MakeDomainDeletionKey(d) \in DOMAIN db'
                    /\ gcPending' = gcPending \cup b.deletions
            /\ ~writeOk =>
                    /\ gcPending' = gcPending
                    /\ \A d \in Domains :
                            MakeDomainDeletionKey(d) \in DOMAIN db'
                                <=> MakeDomainDeletionKey(d) \in DOMAIN db
            /\ \A k \in DOMAIN db :
                    GetKeyTypeFromKey(k) = kSourcePrefixKeyType =>
                        /\ k \in DOMAIN db'
                        /\ Len(db'[k]) >= Len(db[k])
                        /\ SubSeq(db'[k], 1, Len(db[k])) = db[k]]_vars

\* A committed batch that deletes domain 1 while postings of domain 1 are
\* stored: the domain is queued, its marker is stored, its postings remain.
C18_Witness ==
    /\ lastOp = "PutBatch"
    /\ status = "ok"
    /\ 1 \in gcPending
    /\ MakeDomainDeletionKey(1) \in DOMAIN db
    /\ SourceKeysOfDomain(db, prefixLength, 1) # {}
    /\ nBatches = 2

\* What CountOccurrences returns for an index holding exactly the entries
\* of hist, none of them swept.
CountOf(hist, isSource, phrase) ==
    Max(1, TotalOccurrences(hist, IF isSource THEN "source" ELSE "target", phrase))

(***************************************************************************)
(* C19. With no sweep of the garbage collector, every CountOccurrences     *)
(* call made while a PutBatch is in flight returns, for a phrase of at     *)
(* most L words, either the value the phrase had before the batch or the   *)
(* value it has once the batch is committed, never a value in between;     *)
(* and of two successive reads of one target phrase during the call the    *)
(* later never returns less than the earlier.                              *)
(***************************************************************************)
C19_ReadsSeeBeforeOrAfter ==
    [][(rd' # rd /\ rd' # <<>>) =>
        /\ Len(rd'.phrase) <= prefixLength =>
            rd'.value \in {CountOf(wr.before, rd'.isSource, rd'.phrase),
                           CountOf(wr.before \o wr.entries, rd'.isSource,
                                   rd'.phrase)}
        /\ (rd # <<>> /\ ~rd.isSource /\ ~rd'.isSource /\ rd'.phrase = rd.phrase)
            => rd'.value >= rd.value]_vars

\* A source phrase read before and after the commit of a batch that adds
\* occurrences of it in two domains: the second read, made after the
\* commit and before PutBatch returns, sees all of them.
C19_Witness ==
    /\ wr.phase = "committed"
    /\ Len(wr.entries) = 2
    /\ rd # <<>>
    /\ rd.phase = "committed"
    /\ rd.isSource
    /\ rd.phrase = <<1>>
    /\ rd.value = CountOf(wr.before \o wr.entries, TRUE, <<1>>)
    /\ rd.value >= CountOf(wr.before, TRUE, <<1>>) + 3

(***************************************************************************)
(* C20. Whenever the engine iterator has hit a fault, at the initial seek  *)
(* or on an advance, Next does not report a clean end: Next returns false  *)
(* only when the scan was exhausted without fault; and when Next reports   *)
(* an index error every record decoded so far has been returned to the     *)
(* caller.                                                                 *)
(***************************************************************************)
C20_FaultSurfacesAsError ==
    it.open =>
        /\ iterOut.ret = "false" => it.ok
        /\ iterOut.ret = "index_error" => iterOut.decoded = iterOut.delivered

====
